---------------------------- MODULE Spec2Model ----------------------------
(***************************************************************************)
(* A model of pykyadet (src/pykyadet.py): a reverse-mode automatic         *)
(* differentiation engine whose expressions are a DAG of Var objects.      *)
(*                                                                         *)
(* The Python heap is the sequence `heap`: the object with identity i is   *)
(* heap[i].  A Python value that can be an operand, an adjoint or the      *)
(* result of a call is a "ref" record [k, id, n]:                          *)
(*   k = "n"  a Var object, identity id                                    *)
(*   k = "c"  a float whose value is the integer n                         *)
(*   k = "f"  any other float: its value is not tracked                    *)
(*   k = any other string: the exception of that class was raised          *)
(* A call whose outcome would depend on the magnitude of a "f" float ends  *)
(* as the pseudo exception "Unmodelled"; the callers below never take such *)
(* a call, so every state of the model is a state of the program.          *)
(***************************************************************************)
EXTENDS Integers, Sequences, FiniteSets, TLC

VARIABLES heap,      \* the Var objects created so far
          call,      \* the last entry point called by the user, with operands
          res,       \* what that call returned (a ref) or raised
          popped,    \* grad: identities in the order queue.pop() returned them
          out,       \* graphviz: the statements of the returned string, in order
          held,      \* identities of the objects the user holds a reference to
          ncalls,    \* number of constructor calls made by the user
          ntrav,     \* number of grad / graphviz calls made by the user
          prog,      \* the shape of the user program (fixed by the initial state)
          run        \* the grad / graphviz call in progress, when it is followed
                     \* statement by statement: its position and local variables

vars == <<heap, call, res, popped, out, held, ncalls, ntrav, prog, run>>

-----------------------------------------------------------------------------
(* Refs *)

Node(i) == [k |-> "n", id |-> i, n |-> 0]
Num(x) == [k |-> "c", id |-> 0, n |-> x]
Flt == [k |-> "f", id |-> 0, n |-> 0]
Raise(e) == [k |-> e, id |-> 0, n |-> 0]
None == [k |-> "None", id |-> 0, n |-> 0]

IsVar(x) == x.k = "n"
IsNum(x) == x.k \in {"c", "f"}
IsExc(x) == x.k \notin {"n", "c", "f", "None"}

Ret(h, r) == [h |-> h, r |-> r]

\* isinstance(x, cls) for a concrete class cls
IsInstance(h, x, cls) == IsVar(x) /\ h[x.id].cls = cls

\* `not isinstance(x, Var) and x == c` for a numeric literal c
IsLit(x, c) == x.k = "c" /\ x.n = c

-----------------------------------------------------------------------------
(* Float arithmetic on numbers (refs of kind "c" or "f").  Integer-valued  *)
(* floats of magnitude up to ExactLimit are computed exactly; any other    *)
(* float is "f".                                                           *)

Abs(x) == IF x < 0 THEN -x ELSE x

\* Integer-valued floats are tracked exactly up to this magnitude
ExactLimit == 30000

Float(x) == IF Abs(x) > ExactLimit THEN Flt ELSE Num(x)

\* a * a * ... (b times) * acc, stopping once the magnitude leaves ExactLimit
RECURSIVE IPow(_, _, _)
IPow(a, b, acc) ==
    IF b = 0 \/ acc = 0 \/ Abs(acc) > ExactLimit THEN acc
    ELSE IF Abs(a) = 1 THEN (IF a = -1 /\ b % 2 = 1 THEN -acc ELSE acc)
    ELSE IPow(a, b - 1, acc * a)

FNeg(a) == IF a.k = "c" THEN Num(-a.n) ELSE Flt
FAdd(a, b) == IF a.k = "c" /\ b.k = "c" THEN Float(a.n + b.n) ELSE Flt
FSub(a, b) == IF a.k = "c" /\ b.k = "c" THEN Float(a.n - b.n) ELSE Flt
FMul(a, b) == IF a.k = "c" /\ b.k = "c" THEN Float(a.n * b.n) ELSE Flt

\* a / b : ZeroDivisionError when b is 0
FDiv(a, b) ==
    IF b.k = "f" THEN Raise("Unmodelled")
    ELSE IF b.n = 0 THEN Raise("ZeroDivisionError")
    ELSE IF a.k = "f" THEN Flt
    ELSE IF Abs(a.n) % Abs(b.n) = 0
         THEN Num((IF (a.n < 0) = (b.n < 0) THEN 1 ELSE -1) * (Abs(a.n) \div Abs(b.n)))
         ELSE Flt

\* a ** b : ZeroDivisionError for 0.0 raised to a negative power; a result
\* beyond ExactLimit may be an OverflowError and is not modelled
FPow(a, b) ==
    IF a.k = "f" \/ b.k = "f" THEN Raise("Unmodelled")
    ELSE IF b.n >= 0
         THEN (IF Abs(IPow(a.n, b.n, 1)) > ExactLimit THEN Raise("Unmodelled")
               ELSE Num(IPow(a.n, b.n, 1)))
    ELSE IF a.n = 0 THEN Raise("ZeroDivisionError")
    ELSE IF Abs(a.n) = 1 THEN Num(IPow(a.n, -b.n, 1))
    ELSE Flt

\* math.log(a) : ValueError (math domain error) for a <= 0
FLog(a) ==
    IF a.k = "f" THEN Raise("Unmodelled")
    ELSE IF a.n <= 0 THEN Raise("ValueError")
    ELSE IF a.n = 1 THEN Num(0)
    ELSE Flt

FSin(a) == IF IsLit(a, 0) THEN Num(0) ELSE Flt
FCos(a) == IF IsLit(a, 0) THEN Num(1) ELSE Flt


-----------------------------------------------------------------------------
(* The object model: Var and its subclasses *)

MonoClasses == {"OpNegVar", "OpLogVar", "OpSinVar", "OpCosVar"}
BinClasses == {"OpAddVar", "OpSubVar", "OpMulVar", "OpDivVar", "OpPowVar"}

\* Var.__init__ (with the fields the subclasses' __init__ set afterwards)
NewVar(cls, val, larg, rarg) ==
    [cls |-> cls, val |-> val, larg |-> larg, rarg |-> rarg,
     adj |-> Num(0), chain_executed |-> FALSE, graphviz_called |-> FALSE]

Alloc(h, obj) == Ret(Append(h, obj), Node(Len(h) + 1))

\* x.val for a Var x, x itself for a float
ValOf(h, x) == IF IsVar(x) THEN h[x.id].val ELSE x

\* self.args.values(), in insertion order, with the keys
Args(h, i) ==
    IF h[i].cls = "Var" THEN <<>>
    ELSE IF h[i].cls \in MonoClasses THEN << <<"arg", h[i].larg>> >>
    ELSE IF h[i].cls = "OpPowVar"
         THEN << <<"base", h[i].larg>>, <<"exponent", h[i].rarg>> >>
    ELSE << <<"left", h[i].larg>>, <<"right", h[i].rarg>> >>

\* Var.__eq__ on two Var objects, and the == of two operands
RECURSIVE Var_eq(_, _, _)
Var_eq(h, i, j) ==
    LET OperandEq(x, y) ==
            IF IsVar(x) /\ IsVar(y) THEN Var_eq(h, x.id, y.id)
            ELSE IF IsNum(x) /\ IsNum(y) THEN x = y
            ELSE FALSE
    IN  IF h[i].cls # h[j].cls THEN FALSE
        ELSE IF h[i].cls \in MonoClasses THEN OperandEq(h[i].larg, h[j].larg)
        ELSE IF h[i].cls \in BinClasses
             THEN OperandEq(h[i].larg, h[j].larg) /\ OperandEq(h[i].rarg, h[j].rarg)
        ELSE i = j

\* x == y for operands: floats compare by value, a Var never equals a float
Eq(h, x, y) ==
    IF IsVar(x) /\ IsVar(y) THEN Var_eq(h, x.id, y.id)
    ELSE IF IsNum(x) /\ IsNum(y) THEN x = y
    ELSE FALSE

\* A unary node whose operand field is assigned the node itself
OpMonoVar_self(h, cls, val, arg) ==
    IF IsExc(val) THEN Ret(h, val)
    ELSE Alloc(h, NewVar(cls, val, Node(Len(h) + 1), None))

\* OpMonoVar.__init__ : arg.val is read first, a float has no attribute val
OpMonoVar(h, cls, val, arg) ==
    IF IsExc(val) THEN Ret(h, val)
    ELSE Alloc(h, NewVar(cls, val, arg, None))

OpNegVar(h, arg) ==
    IF ~IsVar(arg) THEN Ret(h, Raise("AttributeError"))
    ELSE OpMonoVar(h, "OpNegVar", FNeg(h[arg.id].val), arg)

OpLogVar(h, arg) ==
    IF ~IsVar(arg) THEN Ret(h, Raise("AttributeError"))
    ELSE OpMonoVar(h, "OpLogVar", FLog(h[arg.id].val), arg)

OpSinVar(h, arg) ==
    IF ~IsVar(arg) THEN Ret(h, Raise("AttributeError"))
    ELSE OpMonoVar(h, "OpSinVar", FSin(h[arg.id].val), arg)

OpCosVar(h, arg) ==
    IF ~IsVar(arg) THEN Ret(h, Raise("AttributeError"))
    ELSE OpMonoVar(h, "OpCosVar", FCos(h[arg.id].val), arg)

\* OpBinVar.__init__ ; the value expression of the subclass may have raised
OpBinVar(h, cls, val, l, r) ==
    IF IsExc(val) THEN Ret(h, val)
    ELSE Alloc(h, NewVar(cls, val, l, r))

\* The four isinstance cases of each binary __init__ : (Var, Var), (float, Var)
\* and (Var, float) compute the value from .val or the float and bind chain_vv,
\* chain_fv, chain_vf; (float, float) raises Exception("invalid type of argument").
OpAddVar(h, larg, rarg) ==
    IF ~IsVar(larg) /\ ~IsVar(rarg) THEN Ret(h, Raise("InvalidType"))
    ELSE OpBinVar(h, "OpAddVar", FAdd(ValOf(h, larg), ValOf(h, rarg)), larg, rarg)

OpSubVar(h, larg, rarg) ==
    IF ~IsVar(larg) /\ ~IsVar(rarg) THEN Ret(h, Raise("InvalidType"))
    ELSE OpBinVar(h, "OpSubVar", FSub(ValOf(h, larg), ValOf(h, rarg)), larg, rarg)

OpMulVar(h, larg, rarg) ==
    IF ~IsVar(larg) /\ ~IsVar(rarg) THEN Ret(h, Raise("InvalidType"))
    ELSE OpBinVar(h, "OpMulVar", FMul(ValOf(h, larg), ValOf(h, rarg)), larg, rarg)

OpDivVar(h, larg, rarg) ==
    IF ~IsVar(larg) /\ ~IsVar(rarg) THEN Ret(h, Raise("InvalidType"))
    ELSE OpBinVar(h, "OpDivVar", FDiv(ValOf(h, larg), ValOf(h, rarg)), larg, rarg)

OpPowVar(h, larg, rarg) ==
    IF ~IsVar(larg) /\ ~IsVar(rarg) THEN Ret(h, Raise("InvalidType"))
    ELSE OpBinVar(h, "OpPowVar", FPow(ValOf(h, larg), ValOf(h, rarg)), larg, rarg)

sin(h, x) == OpSinVar(h, x)

cos(h, x) == OpCosVar(h, x)

-----------------------------------------------------------------------------
(* The simplifying constructors.  Each returns [h |-> the heap after the   *)
(* call, r |-> the returned ref or the raised exception].                  *)

\* An operand expression raised: the enclosing expression raises the same.
\* A float whose value is not tracked is outside what the constructors are
\* modelled for.
Raised(l, r) == IsExc(l) \/ IsExc(r)
Reraise(h, l, r) == Ret(h, IF IsExc(l) THEN l ELSE r)
Inexact(l, r) == l.k = "f" \/ r.k = "f"

\* Python's dispatch of an operator applied to l and r (r is None for unary
\* minus) and of the method call l.chain(): defined after the chain rules
RECURSIVE Invoke(_, _, _, _)

py_neg(h, x) == Invoke(h, "neg", x, None)      \* -x
py_add(h, l, r) == Invoke(h, "+", l, r)        \* l + r
py_sub(h, l, r) == Invoke(h, "-", l, r)        \* l - r
py_mul(h, l, r) == Invoke(h, "*", l, r)        \* l * r
py_div(h, l, r) == Invoke(h, "/", l, r)        \* l / r
py_pow(h, l, r) == Invoke(h, "**", l, r)       \* l ** r

\* A negation whose rewrite returns the negation it was given, not its operand
v_neg_same(h, x) ==
    IF IsInstance(h, x, "OpNegVar") THEN Ret(h, x)
    ELSE OpNegVar(h, x)

v_neg(h, x) ==
    IF IsInstance(h, x, "OpNegVar") THEN Ret(h, h[x.id].larg)     \* --x == x
    ELSE OpNegVar(h, x)

\* An addition that applies no rewrite rule
v_add_plain(h, l, r) == OpAddVar(h, l, r)

log(h, x) ==
    IF IsExc(x) THEN Ret(h, x)
    ELSE IF IsInstance(h, x, "OpPowVar")              \* log(a**b) == b * log(a)
         THEN LET L == OpLogVar(h, h[x.id].larg)
              IN  py_mul(L.h, h[x.id].rarg, L.r)
    ELSE OpLogVar(h, x)

v_add(h, l, r) ==
    LET ll == h[l.id].larg
        lr == h[l.id].rarg
        rl == h[r.id].larg
        rr == h[r.id].rarg
        lmul == IsInstance(h, l, "OpMulVar")
        rmul == IsInstance(h, r, "OpMulVar")
        \* x * y, with y the result of an inner call
        Times(x, Y) == py_mul(Y.h, x, Y.r)
    IN  IF IsLit(l, 0) THEN Ret(h, r)                           \* 0 + r == r
        ELSE IF IsLit(r, 0) THEN Ret(h, l)                      \* l + 0 == l
        ELSE IF lmul /\ rmul /\ Eq(h, ll, rl)         \* a * b + a * c
             THEN Times(ll, py_add(h, lr, rr))
        ELSE IF lmul /\ rmul /\ Eq(h, lr, rl)         \* a * b + b * c
             THEN Times(lr, py_add(h, ll, rr))
        ELSE IF lmul /\ rmul /\ Eq(h, ll, rr)         \* a * b + c * a
             THEN Times(ll, py_add(h, lr, rl))
        ELSE IF lmul /\ rmul /\ Eq(h, lr, rr)         \* a * b + c * b
             THEN Times(lr, py_add(h, ll, rl))
        ELSE IF lmul /\ Eq(h, ll, r)                  \* a * b + a
             THEN Times(ll, py_add(h, lr, Num(1)))
        ELSE IF lmul /\ Eq(h, lr, r)                  \* a * b + b
             THEN Times(lr, py_add(h, ll, Num(1)))
        ELSE IF rmul /\ Eq(h, l, rl)                  \* a + a * b
             THEN Times(l, py_add(h, rr, Num(1)))
        ELSE IF rmul /\ Eq(h, l, rr)                  \* b + a * b
             THEN Times(l, py_add(h, rl, Num(1)))
        ELSE IF Eq(h, l, r) THEN py_mul(h, l, Num(2))
        ELSE IF IsInstance(h, l, "OpLogVar") /\ IsInstance(h, r, "OpLogVar")
             THEN LET M == py_mul(h, ll, rl)          \* log(x) + log(y)
                  IN  log(M.h, M.r)
        ELSE OpAddVar(h, l, r)

v_sub(h, l, r) ==
    LET ll == h[l.id].larg
        lr == h[l.id].rarg
        rl == h[r.id].larg
        rr == h[r.id].rarg
        lmul == IsInstance(h, l, "OpMulVar")
        rmul == IsInstance(h, r, "OpMulVar")
        Times(x, Y) == py_mul(Y.h, x, Y.r)
    IN  IF IsLit(l, 0) THEN py_neg(h, r)                        \* 0 - r
        ELSE IF IsLit(r, 0) THEN Ret(h, l)                      \* l - 0 == l
        ELSE IF IsInstance(h, l, "OpLogVar") /\ IsInstance(h, r, "OpLogVar")
             THEN LET D == py_sub(h, ll, rl)          \* log(l.arg - r.arg)
                  IN  log(D.h, D.r)
        ELSE IF lmul /\ rmul /\ Eq(h, ll, rl)         \* a * b - a * c
             THEN Times(ll, py_sub(h, lr, rr))
        ELSE IF lmul /\ rmul /\ Eq(h, lr, rl)         \* a * b - b * c
             THEN Times(lr, py_sub(h, ll, rr))
        ELSE IF lmul /\ rmul /\ Eq(h, ll, rr)         \* a * b - c * a
             THEN Times(ll, py_sub(h, lr, rl))
        ELSE IF lmul /\ rmul /\ Eq(h, lr, rr)         \* a * b - c * b
             THEN Times(lr, py_sub(h, ll, rl))
        ELSE IF lmul /\ Eq(h, ll, r)                  \* a * b - a
             THEN Times(ll, py_sub(h, lr, Num(1)))
        ELSE IF lmul /\ Eq(h, lr, r)                  \* a * b - b
             THEN Times(lr, py_sub(h, ll, Num(1)))
        ELSE IF rmul /\ Eq(h, l, rl)                  \* a - a * b
             THEN Times(l, py_sub(h, Num(1), rr))
        ELSE IF rmul /\ Eq(h, l, rr)                  \* b - a * b
             THEN Times(l, py_sub(h, Num(1), rl))
        ELSE IF Eq(h, l, r) THEN Ret(h, Num(0))
        ELSE OpSubVar(h, l, r)

v_mul(h, l, r) ==
    LET ll == h[l.id].larg
        lr == h[l.id].rarg
        rl == h[r.id].larg
        rr == h[r.id].rarg
        lpow == IsInstance(h, l, "OpPowVar")
        rpow == IsInstance(h, r, "OpPowVar")
        Power(x, Y) == py_pow(Y.h, x, Y.r)
    IN  IF IsLit(l, 0) THEN Ret(h, Num(0))                      \* 0 * r == 0
        ELSE IF IsLit(r, 0) THEN Ret(h, Num(0))                 \* l * 0
        ELSE IF IsLit(r, 1) THEN Ret(h, l)                      \* l * 1 == l
        ELSE IF IsLit(l, 1) THEN Ret(h, r)                      \* 1 * r == r
        ELSE IF IsLit(l, -1) THEN py_neg(h, r)                  \* -1 * r
        ELSE IF IsLit(r, -1) THEN py_neg(h, l)                  \* l * -1
        ELSE IF lpow /\ rpow /\ Eq(h, ll, rl)         \* a ** b * a ** c
             THEN Power(ll, py_add(h, lr, rr))
        ELSE IF lpow /\ Eq(h, ll, r)                  \* a ** b * a
             THEN Power(ll, py_add(h, lr, Num(1)))
        ELSE IF rpow /\ Eq(h, l, rl)                  \* a * a ** b
             THEN Power(rl, py_add(h, rr, Num(1)))
        ELSE OpMulVar(h, l, r)

v_div(h, l, r) ==
    LET ll == h[l.id].larg
        lr == h[l.id].rarg
        rl == h[r.id].larg
        rr == h[r.id].rarg
        Power(x, Y) == py_pow(Y.h, x, Y.r)
    IN  IF IsLit(l, 0) THEN Ret(h, Num(0))                      \* 0 / r == 0
        ELSE IF IsLit(r, 1) THEN Ret(h, l)                      \* l / 1 == l
        ELSE IF IsInstance(h, l, "OpPowVar") /\ IsInstance(h, r, "OpPowVar")
                /\ Eq(h, ll, rl)                      \* a ** b / a ** c
             THEN Power(ll, py_sub(h, lr, rr))
        ELSE OpDivVar(h, l, r)

v_pow(h, l, r) ==
    IF IsLit(r, 1) THEN Ret(h, l)                               \* l ** 1 == l
    ELSE IF IsLit(r, 0) THEN Ret(h, Num(1))                     \* l ** 0 == 1
    ELSE IF IsInstance(h, l, "OpPowVar")              \* (a ** b) ** r
         THEN LET M == py_mul(h, h[l.id].rarg, r)
              IN  py_pow(M.h, h[l.id].larg, M.r)
    ELSE OpPowVar(h, l, r)

-----------------------------------------------------------------------------
(* The chain rules.  Each returns [h, r] with r = None, or the exception   *)
(* an operator in the right-hand side raised (the adjoint is then not      *)
(* stored).                                                                *)

\* target.adj += X   and   target.adj -= X, X the evaluated right-hand side
AdjAdd(t, X) ==
    LET S == py_add(X.h, X.h[t].adj, X.r)
    IN  IF IsExc(S.r) THEN S ELSE Ret([S.h EXCEPT ![t].adj = S.r], None)

AdjSub(t, X) ==
    LET S == py_sub(X.h, X.h[t].adj, X.r)
    IN  IF IsExc(S.r) THEN S ELSE Ret([S.h EXCEPT ![t].adj = S.r], None)

\* OpNegVar.chain : self.arg.adj -= self.adj
OpNegVar_chain(h, i) == AdjSub(h[i].larg.id, Ret(h, h[i].adj))

\* OpLogVar.chain : self.arg.adj += self.adj / self.arg
OpLogVar_chain(h, i) == AdjAdd(h[i].larg.id, py_div(h, h[i].adj, h[i].larg))

\* OpSinVar.chain : self.arg.adj += self.adj * cos(self.arg)
OpSinVar_chain(h, i) ==
    LET C == cos(h, h[i].larg)
    IN  AdjAdd(h[i].larg.id, py_mul(C.h, h[i].adj, C.r))

\* OpCosVar.chain : self.arg.adj -= self.adj * sin(self.arg)
OpCosVar_chain(h, i) ==
    LET S == sin(h, h[i].larg)
    IN  AdjSub(h[i].larg.id, py_mul(S.h, h[i].adj, S.r))

\* The statements of the binary chain rules.  chain_vv runs both statements,
\* chain_vf (rarg is a float) the one for larg, chain_fv the one for rarg.

\* OpAddVar: self.larg.adj += self.adj ; self.rarg.adj += self.adj
OpAddVar_larg(h, i) == AdjAdd(h[i].larg.id, Ret(h, h[i].adj))
OpAddVar_rarg(h, i) == AdjAdd(h[i].rarg.id, Ret(h, h[i].adj))

\* OpSubVar: self.larg.adj += self.adj ; self.rarg.adj -= self.adj
OpSubVar_larg(h, i) == AdjAdd(h[i].larg.id, Ret(h, h[i].adj))
OpSubVar_rarg(h, i) == AdjSub(h[i].rarg.id, Ret(h, h[i].adj))

\* OpMulVar: self.larg.adj += self.adj * self.rarg
\*           self.rarg.adj += self.adj * self.larg
OpMulVar_larg(h, i) == AdjAdd(h[i].larg.id, py_mul(h, h[i].adj, h[i].rarg))
OpMulVar_rarg(h, i) == AdjAdd(h[i].rarg.id, py_mul(h, h[i].adj, h[i].larg))

\* OpDivVar: self.larg.adj += self.adj / self.rarg
\*           self.rarg.adj += self.adj * -self.larg / self.rarg ** 2.0
OpDivVar_larg(h, i) == AdjAdd(h[i].larg.id, py_div(h, h[i].adj, h[i].rarg))
OpDivVar_rarg(h, i) ==
    LET N == py_neg(h, h[i].larg)
        M == py_mul(N.h, h[i].adj, N.r)
        P == IF IsExc(M.r) THEN M ELSE py_pow(M.h, h[i].rarg, Num(2))
    IN  AdjAdd(h[i].rarg.id, py_div(P.h, M.r, P.r))

\* OpPowVar:
\*   self.larg.adj += self.adj * self.rarg * self.larg ** (self.rarg - 1.0)
\*   self.rarg.adj += self.adj * self.larg ** self.rarg * log(self.larg)
\*                    (math.log(self.larg) in chain_fv, where larg is a float)
OpPowVar_larg(h, i) ==
    LET M == py_mul(h, h[i].adj, h[i].rarg)
        S == IF IsExc(M.r) THEN M ELSE py_sub(M.h, h[i].rarg, Num(1))
        P == py_pow(S.h, h[i].larg, S.r)
    IN  AdjAdd(h[i].larg.id, py_mul(P.h, M.r, P.r))
OpPowVar_rarg(h, i) ==
    LET P == py_pow(h, h[i].larg, h[i].rarg)
        M == py_mul(P.h, h[i].adj, P.r)
        L == IF IsExc(M.r) THEN M
             ELSE IF IsVar(h[i].larg) THEN log(M.h, h[i].larg)
             ELSE Ret(M.h, FLog(h[i].larg))
    IN  AdjAdd(h[i].rarg.id, py_mul(L.h, M.r, L.r))

\* The statement of a binary chain rule for larg, and the one for rarg
LargStmt(h, i) ==
    CASE h[i].cls = "OpAddVar" -> OpAddVar_larg(h, i)
      [] h[i].cls = "OpSubVar" -> OpSubVar_larg(h, i)
      [] h[i].cls = "OpMulVar" -> OpMulVar_larg(h, i)
      [] h[i].cls = "OpDivVar" -> OpDivVar_larg(h, i)
      [] h[i].cls = "OpPowVar" -> OpPowVar_larg(h, i)

RargStmt(h, i) ==
    CASE h[i].cls = "OpAddVar" -> OpAddVar_rarg(h, i)
      [] h[i].cls = "OpSubVar" -> OpSubVar_rarg(h, i)
      [] h[i].cls = "OpMulVar" -> OpMulVar_rarg(h, i)
      [] h[i].cls = "OpDivVar" -> OpDivVar_rarg(h, i)
      [] h[i].cls = "OpPowVar" -> OpPowVar_rarg(h, i)

\* The chain bound by a binary __init__ : chain_vv, chain_vf or chain_fv
BinChain(h, i) ==
    LET A == IF IsVar(h[i].larg) THEN LargStmt(h, i) ELSE Ret(h, None)
    IN  IF IsExc(A.r) \/ ~IsVar(h[i].rarg) THEN A ELSE RargStmt(A.h, i)

\* node.chain() : Var.chain is `pass`, the operators bind their own
Chain(h, i) ==
    CASE h[i].cls = "Var" -> Ret(h, None)
      [] h[i].cls = "OpNegVar" -> OpNegVar_chain(h, i)
      [] h[i].cls = "OpLogVar" -> OpLogVar_chain(h, i)
      [] h[i].cls = "OpSinVar" -> OpSinVar_chain(h, i)
      [] h[i].cls = "OpCosVar" -> OpCosVar_chain(h, i)
      [] h[i].cls \in BinClasses -> BinChain(h, i)

\* float op float is float arithmetic; with a Var operand Python calls the
\* method bound to the operator: Var.__neg__ = v_neg, Var.__add__ = v_add and
\* Var.__radd__ = v_radd (which is v_add(l, r)), and so on for - * / **
NativeOp(op, l, r) ==
    CASE op = "neg" -> FNeg(l)
      [] op = "+" -> FAdd(l, r)
      [] op = "-" -> FSub(l, r)
      [] op = "*" -> FMul(l, r)
      [] op = "/" -> FDiv(l, r)
      [] op = "**" -> FPow(l, r)

Invoke(h, op, l, r) ==
    IF op = "chain" THEN Chain(h, l.id)
    ELSE IF Raised(l, r) THEN Reraise(h, l, r)
    ELSE IF ~IsVar(l) /\ ~IsVar(r) THEN Ret(h, NativeOp(op, l, r))
    ELSE IF Inexact(l, r) THEN Ret(h, Raise("Unmodelled"))
    ELSE CASE op = "neg" -> v_neg(h, l)
           [] op = "+" -> v_add(h, l, r)
           [] op = "-" -> v_sub(h, l, r)
           [] op = "*" -> v_mul(h, l, r)
           [] op = "/" -> v_div(h, l, r)
           [] op = "**" -> v_pow(h, l, r)

\* node.chain()
py_chain(h, node) == Invoke(h, "chain", Node(node), None)

-----------------------------------------------------------------------------
(* Var.grad and Var.graphviz *)

\* A reset that clears the node it is called on and none of its operands
reset_adj_self(h, i) == [h EXCEPT ![i].adj = Num(0), ![i].chain_executed = FALSE]

\* Var.reset_adj_all : recursion over args.values(), no visited guard
RECURSIVE reset_adj_all(_, _)
reset_adj_all(h, i) ==
    LET h0 == [h EXCEPT ![i].adj = Num(0), ![i].chain_executed = FALSE]
        a == Args(h0, i)
        h1 == IF Len(a) >= 1 /\ IsVar(a[1][2]) THEN reset_adj_all(h0, a[1][2].id) ELSE h0
        h2 == IF Len(a) >= 2 /\ IsVar(a[2][2]) THEN reset_adj_all(h1, a[2][2].id) ELSE h1
    IN  h2

\* The worklist disciplines.  The code's is "stack": queue.pop() takes the last
\* element.  "fifo" (take the first) is the breadth-first order its docstring
\* names; it is used only to compare traversal orders.
Disciplines == {"stack", "fifo"}
PopIndex(queue, d) == IF d = "stack" THEN Len(queue) ELSE 1
Remove(queue, k) == SubSeq(queue, 1, k - 1) \o SubSeq(queue, k + 1, Len(queue))
\* The operands appended once but never flagged
RECURSIVE PushArgs_unflagged(_, _, _, _)
PushArgs_unflagged(h, queue, a, k) ==
    IF k > Len(a) THEN [h |-> h, queue |-> queue]
    ELSE IF IsVar(a[k][2]) /\ ~h[a[k][2].id].chain_executed
                           /\ \A j \in 1..Len(queue) : queue[j] # a[k][2].id
         THEN PushArgs_unflagged(h, Append(queue, a[k][2].id), a, k + 1)
    ELSE PushArgs_unflagged(h, queue, a, k + 1)

\* The operands appended without looking at chain_executed
RECURSIVE PushArgs_unguarded(_, _, _, _)
PushArgs_unguarded(h, queue, a, k) ==
    IF k > Len(a) THEN [h |-> h, queue |-> queue]
    ELSE IF IsVar(a[k][2])
         THEN PushArgs_unguarded([h EXCEPT ![a[k][2].id].chain_executed = TRUE],
                                 Append(queue, a[k][2].id), a, k + 1)
    ELSE PushArgs_unguarded(h, queue, a, k + 1)

\* for arg in node.args.values(): if hasattr(arg, 'chain_executed') and not
\* arg.chain_executed: arg.chain_executed = True; queue.append(arg)
RECURSIVE PushArgs(_, _, _, _)
PushArgs(h, queue, a, k) ==
    IF k > Len(a) THEN [h |-> h, queue |-> queue]
    ELSE IF IsVar(a[k][2]) /\ ~h[a[k][2].id].chain_executed
         THEN PushArgs([h EXCEPT ![a[k][2].id].chain_executed = TRUE],
                       Append(queue, a[k][2].id), a, k + 1)
    ELSE PushArgs(h, queue, a, k + 1)

\* while queue: node = queue.pop(); node.chain(); push the operands.
\* An exception raised by node.chain() leaves grad at once.
RECURSIVE GradLoop(_, _, _, _)
GradLoop(h, queue, order, d) ==
    IF queue = <<>> THEN [h |-> h, r |-> None, popped |-> order]
    ELSE LET k == PopIndex(queue, d)
             node == queue[k]
             C == py_chain(h, node)
             P == PushArgs(C.h, Remove(queue, k), Args(C.h, node), 1)
         IN  IF IsExc(C.r) THEN [h |-> C.h, r |-> C.r, popped |-> Append(order, node)]
             ELSE GradLoop(P.h, P.queue, Append(order, node), d)

\* Var.grad with the worklist discipline d
GradWith(h, root, d) ==
    LET h0 == reset_adj_all(h, root)
        h1 == [h0 EXCEPT ![root].adj = Num(1), ![root].chain_executed = TRUE]
    IN  GradLoop(h1, <<root>>, <<>>, d)

\* Var.grad
grad(h, root) == GradWith(h, root, "stack")

\* A reset of the graphviz flags that clears the flags of grad as well
RECURSIVE reset_called_all(_, _)
reset_called_all(h, i) ==
    LET h0 == [h EXCEPT ![i].graphviz_called = FALSE, ![i].chain_executed = FALSE]
        a == Args(h0, i)
        h1 == IF Len(a) >= 1 /\ IsVar(a[1][2])
              THEN reset_called_all(h0, a[1][2].id) ELSE h0
        h2 == IF Len(a) >= 2 /\ IsVar(a[2][2])
              THEN reset_called_all(h1, a[2][2].id) ELSE h1
    IN  h2

\* A reset that clears the flag of the node it is called on only
reset_graphviz_called_self(h, i) == [h EXCEPT ![i].graphviz_called = FALSE]

\* Var.reset_graphviz_called_all
RECURSIVE reset_graphviz_called_all(_, _)
reset_graphviz_called_all(h, i) ==
    LET h0 == [h EXCEPT ![i].graphviz_called = FALSE]
        a == Args(h0, i)
        h1 == IF Len(a) >= 1 /\ IsVar(a[1][2])
              THEN reset_graphviz_called_all(h0, a[1][2].id) ELSE h0
        h2 == IF Len(a) >= 2 /\ IsVar(a[2][2])
              THEN reset_graphviz_called_all(h1, a[2][2].id) ELSE h1
    IN  h2

\* The statements graphviz appends to its string: a node statement (node_str),
\* an edge statement `id(node)->id(arg)[... label=key]`, and the label
\* statement of an operand that is not a Var.
NodeStmt(i) == [t |-> "node", src |-> i, dst |-> None, label |-> ""]
EdgeStmt(i, key, arg) == [t |-> "edge", src |-> i, dst |-> arg, label |-> key]
LitStmt(arg) == [t |-> "lit", src |-> 0, dst |-> arg, label |-> ""]

\* for key, arg in node.args.items(): ...
RECURSIVE VisitArgs(_, _, _, _, _, _)
VisitArgs(h, queue, s, node, a, k) ==
    IF k > Len(a) THEN [h |-> h, queue |-> queue, s |-> s]
    ELSE LET key == a[k][1]
             arg == a[k][2]
             s1 == Append(s, EdgeStmt(node, key, arg))
         IN  IF ~IsVar(arg)
             THEN VisitArgs(h, queue, Append(s1, LitStmt(arg)), node, a, k + 1)
             ELSE IF ~h[arg.id].graphviz_called
             THEN VisitArgs([h EXCEPT ![arg.id].graphviz_called = TRUE],
                            Append(queue, arg.id), s1, node, a, k + 1)
             ELSE VisitArgs(h, queue, s1, node, a, k + 1)

RECURSIVE GraphvizLoop(_, _, _)
GraphvizLoop(h, queue, s) ==
    IF queue = <<>> THEN [h |-> h, s |-> s]
    ELSE LET node == queue[Len(queue)]
             V == VisitArgs(h, SubSeq(queue, 1, Len(queue) - 1),
                            Append(s, NodeStmt(node)), node, Args(h, node), 1)
         IN  GraphvizLoop(V.h, V.queue, V.s)

\* Var.graphviz
graphviz(h, root) ==
    LET h0 == reset_graphviz_called_all(h, root)
        h1 == [h0 EXCEPT ![root].graphviz_called = TRUE]
    IN  GraphvizLoop(h1, <<root>>, <<>>)

-----------------------------------------------------------------------------
(* The user program: it creates leaves, then calls the entry points on    *)
(* the objects it holds and on float literals, then calls grad and        *)
(* graphviz on the expression it built last.  prog bounds it: the values  *)
(* of its leaves, the literals it passes, and how many leaves, constructor *)
(* calls and traversals it makes.                                          *)

MaxLeaves == 1        \* leaves of the program of Spec
MaxCalls == 3         \* its constructor calls
MaxTrav == 2          \* its grad / graphviz calls
LeafVals == {-1, 0, 2}

NoCall == [fn |-> "", l |-> None, r |-> None]

\* No grad or graphviz call is in progress, none was followed
Idle == [pc |-> "idle", root |-> 0, stack |-> <<>>, queue |-> <<>>,
         resets |-> <<>>, pushes |-> <<>>, h0 |-> <<>>]

Start(p) ==
    /\ heap = <<>>
    /\ call = NoCall
    /\ res = None
    /\ popped = <<>>
    /\ out = <<>>
    /\ held = {}
    /\ ncalls = 0
    /\ ntrav = 0
    /\ prog = p
    /\ run = Idle

Init ==
    Start([vals |-> [i \in 1..MaxLeaves |-> LeafVals],
           lits |-> {}, leaves |-> MaxLeaves,
           calls |-> MaxCalls, trav |-> MaxTrav])

\* The operands the user can pass: the leaves it created, the objects its
\* calls returned, and its literals
Held == {Node(i) : i \in held}
Operands == Held \cup {Num(c) : c \in prog.lits}

\* x = Var(v)
NewLeaf ==
    /\ Len(heap) < prog.leaves
    /\ ncalls = 0 /\ ntrav = 0
    /\ \E v \in prog.vals[Len(heap) + 1] :
          /\ heap' = Append(heap, NewVar("Var", Num(v), None, None))
          /\ res' = Node(Len(heap) + 1)
          /\ held' = held \cup {Len(heap) + 1}
    /\ call' = [fn |-> "Var", l |-> None, r |-> None]
    /\ UNCHANGED <<popped, out, ncalls, ntrav, prog, run>>

\* The effect of a constructor call that returned or raised R.  A call that
\* leaves the modelled values is not taken.
Called(fn, l, r, R) ==
    /\ ncalls < prog.calls
    /\ ntrav = 0
    /\ R.r.k # "Unmodelled"
    /\ heap' = R.h
    /\ res' = R.r
    /\ held' = IF IsVar(R.r) THEN held \cup {R.r.id} ELSE held
    /\ call' = [fn |-> fn, l |-> l, r |-> r]
    /\ ncalls' = ncalls + 1
    /\ UNCHANGED <<popped, out, ntrav, prog, run>>

CallNeg == \E x \in Held : Called("v_neg", x, None, v_neg(heap, x))
CallLog == \E x \in Held : Called("log", x, None, log(heap, x))
CallSin == \E x \in Held : Called("sin", x, None, sin(heap, x))
CallCos == \E x \in Held : Called("cos", x, None, cos(heap, x))
CallAdd == \E l, r \in Operands : Called("v_add", l, r, v_add(heap, l, r))
CallSub == \E l, r \in Operands : Called("v_sub", l, r, v_sub(heap, l, r))
CallMul == \E l, r \in Operands : Called("v_mul", l, r, v_mul(heap, l, r))
CallDiv == \E l, r \in Operands : Called("v_div", l, r, v_div(heap, l, r))
CallPow == \E l, r \in Operands : Called("v_pow", l, r, v_pow(heap, l, r))

\* The expression the user differentiates or draws: the one built last, or
\* the one of the previous grad / graphviz call.
Roots ==
    IF IsVar(res) THEN {res.id}
    ELSE IF call.fn \in {"grad", "graphviz"} THEN {call.l.id}
    ELSE {}

\* root.grad()
Grad ==
    /\ ntrav < prog.trav
    /\ \E root \in Roots :
          LET G == grad(heap, root)
          IN  /\ G.r.k # "Unmodelled"
              /\ heap' = G.h
              /\ res' = G.r
              /\ popped' = G.popped
              /\ call' = [fn |-> "grad", l |-> Node(root), r |-> None]
    /\ ntrav' = ntrav + 1
    /\ UNCHANGED <<out, held, ncalls, prog, run>>

\* root.graphviz()
Graphviz ==
    /\ ntrav < prog.trav
    /\ \E root \in Roots :
          LET G == graphviz(heap, root)
          IN  /\ heap' = G.h
              /\ out' = G.s
              /\ call' = [fn |-> "graphviz", l |-> Node(root), r |-> None]
    /\ res' = None
    /\ ntrav' = ntrav + 1
    /\ UNCHANGED <<popped, held, ncalls, prog, run>>

Next ==
    \/ NewLeaf
    \/ CallNeg \/ CallLog \/ CallSin \/ CallCos
    \/ CallAdd \/ CallSub \/ CallMul \/ CallDiv \/ CallPow
    \/ Grad
    \/ Graphviz

Spec == Init /\ [][Next]_vars

-----------------------------------------------------------------------------
(* Graph notions used to state the properties *)

\* The Var operands of node i
Kids(h, i) == {Args(h, i)[k][2].id : k \in {j \in 1..Len(Args(h, i)) : IsVar(Args(h, i)[j][2])}}

RECURSIVE Closure(_, _)
Closure(h, S) ==
    LET T == S \cup UNION {Kids(h, i) : i \in S}
    IN  IF T = S THEN S ELSE Closure(h, T)

\* The nodes reachable from root through operand references
Reachable(h, root) == Closure(h, {root})

\* The operand edges into n: <<p, k>> when n is the k-th operand of p
EdgesInto(h, S, n) ==
    {e \in S \X {1, 2} : e[2] <= Len(Args(h, e[1])) /\ Args(h, e[1])[e[2]][2] = Node(n)}

\* The value of an adjoint: the float itself, or the .val of the expression
AdjVal(h, n) == ValOf(h, h[n].adj)

\* A graph of leaves, negations, sums, differences and products of exactly
\* tracked values: its local partial derivatives are integers
PolyClasses == {"Var", "OpNegVar", "OpAddVar", "OpSubVar", "OpMulVar"}
IsPoly(h, S) == \A i \in S : h[i].cls \in PolyClasses /\ h[i].val.k = "c"

\* The local partial derivative of p with respect to its k-th operand
Partial(h, p, k) ==
    CASE h[p].cls = "OpNegVar" -> -1
      [] h[p].cls = "OpAddVar" -> 1
      [] h[p].cls = "OpSubVar" -> IF k = 1 THEN 1 ELSE -1
      [] h[p].cls = "OpMulVar" -> IF k = 1 THEN ValOf(h, h[p].rarg).n ELSE ValOf(h, h[p].larg).n

RECURSIVE SumContrib(_, _)
SumContrib(h, E) ==
    IF E = {} THEN 0
    ELSE LET e == CHOOSE x \in E : TRUE
         IN  AdjVal(h, e[1]).n * Partial(h, e[1], e[2]) + SumContrib(h, E \ {e})

\* The chain-rule sum for n in the graph under root, from the final adjoints
ChainSum(h, root, n) ==
    IF n = root THEN 1
    ELSE SumContrib(h, EdgesInto(h, Reachable(h, root), n))

GradDone == call.fn = "grad" /\ res = None
GradRoot == call.l.id

-----------------------------------------------------------------------------
(* C1: after grad(root) the adjoint of every node reachable from root is   *)
(* the chain-rule sum: 1 for the root, otherwise the sum over every parent *)
(* p and every operand edge p->n of p's final adjoint times the local      *)
(* partial of p with respect to n.  Stated for the graphs whose partials   *)
(* are integers.                                                           *)
C1_ChainRuleSum ==
    (GradDone /\ IsPoly(heap, Reachable(heap, GradRoot)))
        => \A n \in Reachable(heap, GradRoot) :
              AdjVal(heap, n) = Num(ChainSum(heap, GradRoot, n))

(* C2: the adjoints grad leaves do not depend on the worklist order: the   *)
(* code's stack order and first-in-first-out order give every reachable    *)
(* node the same adjoint value.                                            *)
C2_OrderIndependent ==
    (GradDone /\ IsPoly(heap, Reachable(heap, GradRoot)))
        => LET F == GradWith(heap, GradRoot, "fifo")
           IN  F.r = None =>
                  \A n \in Reachable(heap, GradRoot) : AdjVal(heap, n) = AdjVal(F.h, n)

(* C10: during grad no operator node is popped (and its chain rule run)    *)
(* before every parent of it that is reachable from the root was popped.   *)
C10_ParentsPoppedFirst ==
    call.fn = "grad" =>
        \A k \in 1..Len(popped) :
            heap[popped[k]].cls # "Var" =>
                \A p \in Reachable(heap, GradRoot) :
                    popped[k] \in Kids(heap, p) => \E j \in 1..(k - 1) : popped[j] = p

\* x and y are the same adjoint in heap h: the same float, or expressions with
\* the same value that __eq__ finds structurally equal
SameAdjoint(h, x, y) ==
    IF IsVar(x) /\ IsVar(y) THEN h[x.id].val = h[y.id].val /\ Var_eq(h, x.id, y.id)
    ELSE x = y

\* This step is a grad on the root of the grad before it, nothing in between
GradAgain ==
    /\ call.fn = "grad"
    /\ call' = call
    /\ ntrav' = ntrav + 1

(* C3: a grad called right after a grad on the same root, with nothing     *)
(* constructed in between, leaves every reachable node with the adjoint    *)
(* the first call left: the same value and a structurally equal expression *)
C3_GradTwice ==
    [][GradAgain =>
          /\ res' = res
          /\ \A n \in Reachable(heap, GradRoot) :
                SameAdjoint(heap', heap[n].adj, heap'[n].adj)]_vars

\* Two grads in a row were made on an operator root, and left an adjoint
\* that is an expression
C3_Witness ==
    /\ call.fn = "grad" /\ res = None
    /\ ntrav = 2 /\ out = <<>>
    /\ heap[GradRoot].cls # "Var"
    /\ \E n \in Reachable(heap, GradRoot) : n # GradRoot /\ IsVar(heap[n].adj)

\* How many times statement st occurs in the output
Count(st) == Cardinality({i \in 1..Len(out) : out[i] = st})

GraphvizRoot == call.l.id

\* The edge statements node i must get: one for each of its operand roles
EdgesOf(h, i) == {EdgeStmt(i, Args(h, i)[k][1], Args(h, i)[k][2]) : k \in 1..Len(Args(h, i))}

(* C9: graphviz(root) emits the node statement of every node reachable     *)
(* from root exactly once and the edge statement of every operand role of  *)
(* every such node exactly once, and no other node or edge statement.      *)
C9_EachOnce ==
    call.fn = "graphviz" =>
        LET R == Reachable(heap, GraphvizRoot)
        IN  /\ \A n \in R : Count(NodeStmt(n)) = 1
            /\ \A n \in R : \A e \in EdgesOf(heap, n) : Count(e) = 1
            /\ \A i \in 1..Len(out) :
                  /\ out[i].t = "node" => out[i].src \in R
                  /\ out[i].t = "edge" => out[i].src \in R /\ out[i] \in EdgesOf(heap, out[i].src)

\* A second graphviz in a row, the flags left set by the first, on a graph
\* with a node that is an operand twice
C9_Witness ==
    /\ call.fn = "graphviz"
    /\ ntrav = 2 /\ popped = <<>>
    /\ \E n \in Reachable(heap, GraphvizRoot) :
          Cardinality(EdgesInto(heap, Reachable(heap, GraphvizRoot), n)) >= 2
    /\ \E n \in Reachable(heap, GraphvizRoot) :
          Len(Args(heap, n)) = 2 /\ Args(heap, n)[1][2] = Args(heap, n)[2][2]
             /\ IsVar(Args(heap, n)[1][2])

-----------------------------------------------------------------------------
(* A program that calls the binary entry points on one leaf and on float   *)
(* literals, two numbers included.                                         *)

NumLeaves == 1
NumCalls == 2
Literals == {-1, 0, 1, 2}
NumVals == {0, 2}

InitNum ==
    Start([vals |-> [i \in 1..NumLeaves |-> NumVals],
           lits |-> Literals, leaves |-> NumLeaves,
           calls |-> NumCalls, trav |-> 0])

NextNum == NewLeaf \/ CallAdd \/ CallSub \/ CallMul \/ CallDiv \/ CallPow

SpecNum == InitNum /\ [][NextNum]_vars

BinaryEntryPoints == {"v_add", "v_sub", "v_mul", "v_div", "v_pow"}

(* C4: a call of v_add, v_sub, v_mul, v_div or v_pow with two numbers      *)
(* raises the invalid-operand exception, whatever the numbers are.         *)
C4_TwoNumbersRaise ==
    (call.fn \in BinaryEntryPoints /\ IsNum(call.l) /\ IsNum(call.r))
        => res = Raise("InvalidType")

\* The exceptions Python raises for a value outside an operation's domain
DomainErrors == {"ZeroDivisionError", "ValueError"}

(* C5: a call of v_div whose divisor is the number 0 or a node of value 0  *)
(* raises a domain error, whatever the dividend is.  (Of two numbers the   *)
(* invalid-operand exception is accepted as well: the call fails.)         *)
C5_ZeroDivisorRaises ==
    (call.fn = "v_div" /\ ValOf(heap, call.r) = Num(0))
        => \/ res.k \in DomainErrors
           \/ IsNum(call.l) /\ IsNum(call.r) /\ res = Raise("InvalidType")

-----------------------------------------------------------------------------
(* A program that takes logarithms of two leaves and adds and subtracts.   *)

LogLeaves == 2
LogCalls == 3
LogVals == {2, 6}

InitLog ==
    Start([vals |-> [i \in 1..LogLeaves |-> LogVals],
           lits |-> {}, leaves |-> LogLeaves,
           calls |-> LogCalls, trav |-> 0])

NextLog == NewLeaf \/ CallLog \/ CallAdd \/ CallSub

SpecLog == InitLog /\ [][NextLog]_vars

\* The call was fn(l, r) with l and r two log nodes
LogCall(fn) ==
    /\ call.fn = fn
    /\ IsInstance(heap, call.l, "OpLogVar")
    /\ IsInstance(heap, call.r, "OpLogVar")

\* The call returned a node structurally equal to the node R.r of heap R.h
ReturnedLike(R) == IsVar(res) /\ IsVar(R.r) /\ Var_eq(R.h, res.id, R.r.id)

\* log(x / y) and log(x * y) for the arguments x, y of the operands of the call
LogOfQuotient ==
    LET D == py_div(heap, heap[call.l.id].larg, heap[call.r.id].larg)
    IN  log(D.h, D.r)
LogOfProduct ==
    LET M == py_mul(heap, heap[call.l.id].larg, heap[call.r.id].larg)
    IN  log(M.h, M.r)

(* C6: log(x) - log(y) returns a node structurally equal to log(x / y),    *)
(* and log(x) + log(y) a node structurally equal to log(x * y).            *)
C6_LogCombination ==
    /\ LogCall("v_sub") => ReturnedLike(LogOfQuotient)
    /\ LogCall("v_add") => ReturnedLike(LogOfProduct)

(* C8: when a call matches both logarithm combination and self-            *)
(* cancellation, logarithm combination is applied: the sum of two          *)
(* structurally equal log nodes log(x) + log(x) is log(x * x).             *)
C8_LogBeforeSelfCancel ==
    (LogCall("v_add") /\ Var_eq(heap, call.l.id, call.r.id))
        => /\ ReturnedLike(LogOfProduct)
           /\ heap[res.id].cls = "OpLogVar"

-----------------------------------------------------------------------------
(* A program that multiplies and adds three leaves and differentiates.     *)

FactorLeaves == 3
FactorCalls == 3
FactorTrav == 1
\* The leaves have the distinct values 2.0, 3.0, 4.0, in the order of creation
FactorVals == [i \in 1..FactorLeaves |-> {i + 1}]

InitFactor ==
    Start([vals |-> FactorVals,
           lits |-> {}, leaves |-> FactorLeaves,
           calls |-> FactorCalls, trav |-> FactorTrav])

NextFactor == NewLeaf \/ CallMul \/ CallAdd \/ Grad

SpecFactor == InitFactor /\ [][NextFactor]_vars

Leaves == {i \in 1..Len(heap) : heap[i].cls = "Var"}

\* x is a product of the leaves a and b, in either order
IsProductOf(x, a, b) ==
    /\ IsInstance(heap, x, "OpMulVar")
    /\ \/ heap[x.id].larg = Node(a) /\ heap[x.id].rarg = Node(b)
       \/ heap[x.id].larg = Node(b) /\ heap[x.id].rarg = Node(a)

\* The call was v_add of a product of a and b and a product of a and c
FactorCall(a, b, c) ==
    /\ call.fn = "v_add"
    /\ IsProductOf(call.l, a, b)
    /\ IsProductOf(call.r, a, c)

\* a * (b + c)
Factored(a, b, c) ==
    LET S == py_add(heap, Node(b), Node(c))
    IN  py_mul(S.h, Node(a), S.r)

\* The call returned a*(b+c), and if this step is grad on what it returned,
\* grad leaves a.adj = b.val + c.val, b.adj = a.val and c.adj = a.val
FactorStep(a, b, c) ==
    FactorCall(a, b, c) =>
        /\ ReturnedLike(Factored(a, b, c))
        /\ (call'.fn = "grad" /\ call'.l = res) =>
              /\ res' = None
              /\ AdjVal(heap', a) = FAdd(heap[b].val, heap[c].val)
              /\ AdjVal(heap', b) = heap[a].val
              /\ AdjVal(heap', c) = heap[a].val

(* C7 as stated, for any leaves a, b, c: a*b + a*c, the shared factor a on *)
(* either side of either product, is structurally equal to a*(b+c), and    *)
(* grad on it leaves a.adj = b.val + c.val, b.adj = a.val, c.adj = a.val.  *)
C7_AnyLeaves ==
    [][\A a, b, c \in Leaves : FactorStep(a, b, c)]_vars

(* C7 for pairwise distinct leaves a, b, c: a*b + a*c, the shared factor a *)
(* on either side of either product, is structurally equal to a*(b+c), and *)
(* grad on it leaves a.adj = b.val + c.val, b.adj = a.val, c.adj = a.val.  *)
C7_DistinctLeaves ==
    [][\A a, b, c \in Leaves :
          (a # b /\ a # c /\ b # c) => FactorStep(a, b, c)]_vars

\* grad ran on the a*(b+c) that a*b + a*c returned, a, b, c distinct, the
\* shared factor on the right of the first product
C7_Witness ==
    /\ call.fn = "grad" /\ res = None
    /\ Len(heap) = 7
    /\ \E a, b, c \in Leaves :
          /\ a # b /\ a # c /\ b # c
          /\ heap[4].larg = Node(b) /\ heap[4].rarg = Node(a)
          /\ IsProductOf(Node(5), a, c)
          /\ heap[GradRoot].cls = "OpMulVar" /\ heap[GradRoot].larg = Node(a)
          /\ heap[a].val # heap[b].val
          /\ AdjVal(heap, a) = FAdd(heap[b].val, heap[c].val)

-----------------------------------------------------------------------------
(* grad and graphviz followed statement by statement.  run.pc is the       *)
(* position in the call: "reset" / "gv_reset" in the recursion of          *)
(* reset_adj_all / reset_graphviz_called_all, "loop" / "gv_loop" in the    *)
(* while loop, "done" / "gv_done" after the return, "raised" after a       *)
(* chain rule raised.  run.stack holds the pending calls of the reset      *)
(* recursion (the next one last), run.queue is the local `queue`,          *)
(* run.resets and run.pushes record the nodes reset and the nodes         *)
(* appended to the queue, in order, and run.h0 is the heap at the call.    *)

RunLeaves == 1
RunCalls == 2
RunTrav == 2
RunVals == {-1, 2}

InitRun ==
    Start([vals |-> [i \in 1..RunLeaves |-> RunVals],
           lits |-> {}, leaves |-> RunLeaves,
           calls |-> RunCalls, trav |-> RunTrav])

RECURSIVE Reverse(_)
Reverse(q) == IF q = <<>> THEN <<>> ELSE Append(Reverse(Tail(q)), Head(q))

\* The Var operands of node n, in the order of n.args.values()
RECURSIVE VarArgsFrom(_, _)
VarArgsFrom(a, k) ==
    IF k > Len(a) THEN <<>>
    ELSE IF IsVar(a[k][2]) THEN <<a[k][2].id>> \o VarArgsFrom(a, k + 1)
    ELSE VarArgsFrom(a, k + 1)
VarArgs(h, n) == VarArgsFrom(Args(h, n), 1)

Top(q) == q[Len(q)]
Pop(q) == SubSeq(q, 1, Len(q) - 1)

CallEnded == run.pc \in {"idle", "done", "raised", "gv_done"}

\* root.grad() is called: reset_adj_all is entered on root
GradBegin ==
    /\ CallEnded
    /\ ntrav < prog.trav
    /\ \E root \in Roots :
          /\ grad(heap, root).r.k # "Unmodelled"
          /\ run' = [pc |-> "reset", root |-> root, stack |-> <<root>>, queue |-> <<>>,
                     resets |-> <<>>, pushes |-> <<>>, h0 |-> heap]
          /\ call' = [fn |-> "grad", l |-> Node(root), r |-> None]
    /\ res' = None
    /\ popped' = <<>>
    /\ ntrav' = ntrav + 1
    /\ UNCHANGED <<heap, out, held, ncalls, prog>>

\* One call of reset_adj_all: the node is reset, then the method is called
\* on each of its Var operands in turn
ResetStep ==
    /\ run.pc = "reset"
    /\ run.stack # <<>>
    /\ LET n == Top(run.stack)
       IN  /\ heap' = [heap EXCEPT ![n].adj = Num(0), ![n].chain_executed = FALSE]
           /\ run' = [run EXCEPT !.stack = Pop(run.stack) \o Reverse(VarArgs(heap, n)),
                                 !.resets = Append(run.resets, n)]
    /\ UNCHANGED <<call, res, popped, out, held, ncalls, ntrav, prog>>

\* self.adj = 1.0; queue = []; self.chain_executed = True; queue.append(self)
Seed ==
    /\ run.pc = "reset"
    /\ run.stack = <<>>
    /\ heap' = [heap EXCEPT ![run.root].adj = Num(1), ![run.root].chain_executed = TRUE]
    /\ run' = [run EXCEPT !.pc = "loop", !.queue = <<run.root>>, !.pushes = <<run.root>>]
    /\ UNCHANGED <<call, res, popped, out, held, ncalls, ntrav, prog>>

\* One iteration of `while queue`: node = queue.pop(); node.chain(); the
\* operands not yet flagged are flagged and appended.  An exception of
\* node.chain() ends the call.
PopStep ==
    /\ run.pc = "loop"
    /\ run.queue # <<>>
    /\ LET node == Top(run.queue)
           C == py_chain(heap, node)
           P == PushArgs(C.h, Pop(run.queue), Args(C.h, node), 1)
       IN  /\ popped' = Append(popped, node)
           /\ IF IsExc(C.r)
              THEN /\ heap' = C.h
                   /\ res' = C.r
                   /\ run' = [run EXCEPT !.pc = "raised", !.queue = Pop(run.queue)]
              ELSE /\ heap' = P.h
                   /\ res' = res
                   /\ run' = [run EXCEPT
                                !.queue = P.queue,
                                !.pushes = run.pushes \o
                                           SubSeq(P.queue, Len(run.queue), Len(P.queue))]
    /\ UNCHANGED <<call, out, held, ncalls, ntrav, prog>>

\* `while queue` finds the queue empty: grad returns
Finish ==
    /\ run.pc = "loop"
    /\ run.queue = <<>>
    /\ run' = [run EXCEPT !.pc = "done"]
    /\ UNCHANGED <<heap, call, res, popped, out, held, ncalls, ntrav, prog>>

\* root.graphviz() is called: reset_graphviz_called_all is entered on root
GvBegin ==
    /\ CallEnded
    /\ ntrav < prog.trav
    /\ \E root \in Roots :
          /\ run' = [pc |-> "gv_reset", root |-> root, stack |-> <<root>>, queue |-> <<>>,
                     resets |-> <<>>, pushes |-> <<>>, h0 |-> heap]
          /\ call' = [fn |-> "graphviz", l |-> Node(root), r |-> None]
    /\ res' = None
    /\ out' = <<>>
    /\ ntrav' = ntrav + 1
    /\ UNCHANGED <<heap, popped, held, ncalls, prog>>

\* One call of reset_graphviz_called_all
GvResetStep ==
    /\ run.pc = "gv_reset"
    /\ run.stack # <<>>
    /\ LET n == Top(run.stack)
       IN  /\ heap' = [heap EXCEPT ![n].graphviz_called = FALSE]
           /\ run' = [run EXCEPT !.stack = Pop(run.stack) \o Reverse(VarArgs(heap, n)),
                                 !.resets = Append(run.resets, n)]
    /\ UNCHANGED <<call, res, popped, out, held, ncalls, ntrav, prog>>

\* s = "digraph {"; queue = []; self.graphviz_called = True; queue.append(self)
GvSeed ==
    /\ run.pc = "gv_reset"
    /\ run.stack = <<>>
    /\ heap' = [heap EXCEPT ![run.root].graphviz_called = TRUE]
    /\ run' = [run EXCEPT !.pc = "gv_loop", !.queue = <<run.root>>, !.pushes = <<run.root>>]
    /\ UNCHANGED <<call, res, popped, out, held, ncalls, ntrav, prog>>

\* One iteration of `while queue` of graphviz
GvPopStep ==
    /\ run.pc = "gv_loop"
    /\ run.queue # <<>>
    /\ LET node == Top(run.queue)
           V == VisitArgs(heap, Pop(run.queue), Append(out, NodeStmt(node)),
                          node, Args(heap, node), 1)
       IN  /\ heap' = V.h
           /\ out' = V.s
           /\ run' = [run EXCEPT
                        !.queue = V.queue,
                        !.pushes = run.pushes \o
                                   SubSeq(V.queue, Len(run.queue), Len(V.queue))]
    /\ UNCHANGED <<call, res, popped, held, ncalls, ntrav, prog>>

\* `while queue` finds the queue empty: graphviz returns the string
GvFinish ==
    /\ run.pc = "gv_loop"
    /\ run.queue = <<>>
    /\ run' = [run EXCEPT !.pc = "gv_done"]
    /\ UNCHANGED <<heap, call, res, popped, out, held, ncalls, ntrav, prog>>

\* A statement of the call in progress
RunStep ==
    \/ ResetStep \/ Seed \/ PopStep \/ Finish
    \/ GvResetStep \/ GvSeed \/ GvPopStep \/ GvFinish

NextRun ==
    \/ NewLeaf
    \/ CallNeg \/ CallAdd \/ CallMul \/ CallPow
    \/ GradBegin \/ ResetStep \/ Seed \/ PopStep \/ Finish
    \/ GvBegin \/ GvResetStep \/ GvSeed \/ GvPopStep \/ GvFinish

SpecRun == InitRun /\ [][NextRun]_vars

\* The statements of RunStep other than an iteration of `while queue` of grad
LightStep ==
    \/ ResetStep \/ Seed \/ Finish
    \/ GvResetStep \/ GvSeed \/ GvPopStep \/ GvFinish

\* node = queue.pop(); node.chain() as it shows in popped: a step of NextRun
\* that appends the top of the queue to popped is a PopStep, and every
\* PopStep does so
Popping ==
    /\ run.pc = "loop"
    /\ run.queue # <<>>
    /\ popped' = Append(popped, Top(run.queue))

\* A call that was entered runs on (the program is sequential and does not
\* wait for anything): a statement that can be executed is executed
SpecRunFair == SpecRun /\ WF_vars(LightStep) /\ WF_popped(Popping)

\* The call followed statement by statement ends as the call taken at once
RunAgrees ==
    /\ run.pc \in {"done", "raised"} =>
          LET G == grad(run.h0, run.root)
          IN  heap = G.h /\ res = G.r /\ popped = G.popped
    /\ run.pc = "gv_done" =>
          LET G == graphviz(run.h0, run.root)
          IN  heap = G.h /\ out = G.s

-----------------------------------------------------------------------------
(* Each node once per grad call *)

Occurs(q, n) == Cardinality({i \in 1..Len(q) : q[i] = n})
GradEnded == run.pc \in {"done", "raised"}
GradGraph == Reachable(run.h0, run.root)

-----------------------------------------------------------------------------
(* The reset phase *)

\* C12: in the reset phase of a grad call no reachable node is reset a
\* second time, so the number of reset steps is at most the number of
\* reachable nodes.
C12_ResetAtMostOnce ==
    run.pc \in {"reset", "loop", "done", "raised"} =>
        /\ \A n \in GradGraph : Occurs(run.resets, n) <= 1
        /\ Len(run.resets) <= Cardinality(GradGraph)

-----------------------------------------------------------------------------
(* Termination of grad and graphviz *)

InCall == run.pc \in {"reset", "loop", "gv_reset", "gv_loop"}

\* The call has returned: no reset call is pending, the queue is empty and
\* every node reachable from the root carries the flag of the traversal
Completed ==
    /\ run.pc \in {"done", "gv_done"}
    /\ run.stack = <<>>
    /\ run.queue = <<>>
    /\ \A n \in Reachable(run.h0, run.root) :
          IF run.pc = "done" THEN heap[n].chain_executed ELSE heap[n].graphviz_called

-----------------------------------------------------------------------------
(* A user program that goes on after grad: it reads the adjoint x.adj of   *)
(* an object it holds, which is an expression node when the chain rules    *)
(* built one, calls grad and graphviz on it, and passes it to the          *)
(* constructors.                                                           *)

AdjLeaves == 1
AdjCalls == 2
AdjTrav == 3
LateCalls == 1
AdjVals == {2}

InitAdj ==
    Start([vals |-> [i \in 1..AdjLeaves |-> AdjVals],
           lits |-> {}, leaves |-> AdjLeaves,
           calls |-> AdjCalls, trav |-> AdjTrav])

\* d = x.adj, for an x the user holds whose adjoint is an expression
ReadAdj ==
    /\ ntrav >= 1
    /\ \E x \in held :
          /\ IsVar(heap[x].adj)
          /\ res' = heap[x].adj
          /\ held' = held \cup {heap[x].adj.id}
          /\ call' = [fn |-> "adj", l |-> Node(x), r |-> None]
    /\ UNCHANGED <<heap, popped, out, ncalls, ntrav, prog, run>>

\* The effect of a constructor call made after a grad or graphviz call.
\* The program makes at most LateCalls of them, and makes no call of the
\* first prog.calls any more.
CalledLate(fn, l, r, R) ==
    /\ ntrav >= 1
    /\ ncalls < prog.calls + LateCalls
    /\ R.r.k # "Unmodelled"
    /\ heap' = R.h
    /\ res' = R.r
    /\ held' = IF IsVar(R.r) THEN held \cup {R.r.id} ELSE held
    /\ call' = [fn |-> fn, l |-> l, r |-> r]
    /\ ncalls' = IF ncalls < prog.calls THEN prog.calls + 1 ELSE ncalls + 1
    /\ UNCHANGED <<popped, out, ntrav, prog, run>>

LateNeg == \E x \in Held : CalledLate("v_neg", x, None, v_neg(heap, x))
LateMul == \E l, r \in Held : CalledLate("v_mul", l, r, v_mul(heap, l, r))

NextAdj ==
    \/ NewLeaf
    \/ CallNeg \/ CallAdd \/ CallMul
    \/ Grad
    \/ Graphviz
    \/ ReadAdj
    \/ LateNeg \/ LateMul

SpecAdj == InitAdj /\ [][NextAdj]_vars

-----------------------------------------------------------------------------
(* What grad and graphviz leave alone *)

GradStep == call'.fn = "grad" /\ ntrav' = ntrav + 1
GraphvizStep == call'.fn = "graphviz" /\ ntrav' = ntrav + 1

\* C14: a grad call changes nothing but adj and chain_executed of the
\* nodes reachable from its root: val, the class, the operands and
\* graphviz_called of every node that existed at the call are as before, and
\* so is every field of a node not reachable from the root.  A graphviz call
\* changes nothing but graphviz_called of the nodes reachable from its root,
\* and creates no node.
C14_Frame ==
    [][/\ GradStep =>
             /\ Len(heap') >= Len(heap)
             /\ \A i \in 1..Len(heap) :
                   /\ heap'[i].cls = heap[i].cls
                   /\ heap'[i].val = heap[i].val
                   /\ heap'[i].larg = heap[i].larg
                   /\ heap'[i].rarg = heap[i].rarg
                   /\ heap'[i].graphviz_called = heap[i].graphviz_called
                   /\ i \notin Reachable(heap, call'.l.id) => heap'[i] = heap[i]
       /\ GraphvizStep =>
             /\ Len(heap') = Len(heap)
             /\ \A i \in 1..Len(heap) :
                   /\ heap'[i] = [heap[i] EXCEPT
                                    !.graphviz_called = heap'[i].graphviz_called]
                   /\ i \notin Reachable(heap, call'.l.id) => heap'[i] = heap[i]
      ]_vars

\* A grad call was made on a root from which a node is not reachable that
\* an earlier grad call had flagged and given an adjoint, and a node is
\* reachable that an earlier graphviz call had flagged
C14_Witness ==
    /\ call.fn = "grad"
    /\ res = None
    /\ \E i \in 1..Len(heap) :
          /\ i \notin Reachable(heap, GradRoot)
          /\ heap[i].chain_executed
          /\ heap[i].adj # Num(0)
    /\ \E j \in Reachable(heap, GradRoot) : heap[j].graphviz_called

-----------------------------------------------------------------------------
(* The operand relation *)

\* C15: after any constructor calls and grad calls, grad calls on adjoint
\* nodes included, every node references as operands only nodes created
\* before it, and no node is reachable from itself through operand
\* references.
C15_Acyclic ==
    \A i \in 1..Len(heap) :
        /\ \A j \in Kids(heap, i) : j < i
        /\ i \notin Closure(heap, Kids(heap, i))

\* A grad call was made on an adjoint node that a chain rule of an earlier
\* grad call built: the user built the nodes up to AdjLeaves + AdjCalls
\* only, no constructor was called after the first grad
C15_Witness ==
    /\ call.fn = "grad"
    /\ res = None
    /\ ncalls <= AdjCalls
    /\ GradRoot > AdjLeaves + AdjCalls
    /\ Cardinality(Reachable(heap, GradRoot)) >= 3
    /\ \E n \in Reachable(heap, GradRoot) : IsVar(heap[n].adj)

-----------------------------------------------------------------------------
(* A user program on integers: one leaf with an integer value, integer     *)
(* literals, and calls of v_neg, v_add, v_sub and v_mul in which at least  *)
(* one operand is a node.                                                  *)

IntLeaves == 1
IntCalls == 3
IntVals == {-2, 3}
IntLiterals == {-1, 0, 1, 2}

InitInt ==
    Start([vals |-> [i \in 1..IntLeaves |-> IntVals],
           lits |-> IntLiterals, leaves |-> IntLeaves,
           calls |-> IntCalls, trav |-> 0])

NodeAdd ==
    \E l, r \in Operands :
        (IsVar(l) \/ IsVar(r)) /\ Called("v_add", l, r, v_add(heap, l, r))
NodeSub ==
    \E l, r \in Operands :
        (IsVar(l) \/ IsVar(r)) /\ Called("v_sub", l, r, v_sub(heap, l, r))
NodeMul ==
    \E l, r \in Operands :
        (IsVar(l) \/ IsVar(r)) /\ Called("v_mul", l, r, v_mul(heap, l, r))

NextInt == NewLeaf \/ CallNeg \/ NodeAdd \/ NodeSub \/ NodeMul

SpecInt == InitInt /\ [][NextInt]_vars

\* The plain arithmetic of an entry point on two numbers
Plain(fn, x, y) ==
    CASE fn = "v_neg" -> 0 - x
      [] fn = "v_add" -> x + y
      [] fn = "v_sub" -> x - y
      [] fn = "v_mul" -> x * y

=============================================================================
